---- MODULE Spec2Model ----
(***************************************************************************)
(* Model of src/mcp_client.py: the interactive loop of main(), the prompt  *)
(* and resource commands, and the compiled LangGraph agent (chat_node,     *)
(* ToolNode, tools_condition, MemorySaver checkpointer).                   *)
(*                                                                         *)
(* Text is modelled as a sequence of one-character strings, so that        *)
(* str.strip, str.lower, str.startswith and shlex.split are computed       *)
(* character by character as the Python code computes them.                *)
(***************************************************************************)
EXTENDS Integers, Sequences, FiniteSets, TLC

\* ---------------------------------------------------------------- bounds
\* agent cycles (agent.ainvoke calls) per session
MaxTurns == 2
\* tool-invocation requests the model may put in one assistant message
MaxCalls == 2
\* the first MaxVaried assistant messages of a session are drawn from the
\* full range (0..MaxCalls requests, tools succeeding or failing); later
\* ones carry at most one request, whose tool succeeds
MaxVaried == 1
\* the loop reads further input only while the stored history has at most
\* this many messages
MaxPrior == 2

\* langgraph's default recursion_limit, in force because neither ainvoke
\* call passes one in its config (src/mcp_client.py:84, :217)
RecursionLimit == 25

\* ------------------------------------------------------------------ text
SP == " "
DQ == "\""

\* str.strip() for the whitespace of the modelled alphabet
RECURSIVE LStrip(_)
LStrip(s) == IF s # <<>> /\ Head(s) = SP THEN LStrip(Tail(s)) ELSE s

RECURSIVE RStrip(_)
RStrip(s) ==
  IF s # <<>> /\ s[Len(s)] = SP THEN RStrip(SubSeq(s, 1, Len(s) - 1)) ELSE s

Strip(s) == RStrip(LStrip(s))

\* str.lower() for the letters of the modelled alphabet
LowerChar(c) ==
  CASE c = "Q" -> "q"
    [] c = "E" -> "e"
    [] c = "X" -> "x"
    [] c = "I" -> "i"
    [] c = "T" -> "t"
    [] c = "U" -> "u"
    [] OTHER -> c

Lower(s) == [i \in 1..Len(s) |-> LowerChar(s[i])]

\* str.startswith(prefix)
StartsWith(s, prefix) ==
  /\ Len(s) >= Len(prefix)
  /\ SubSeq(s, 1, Len(prefix)) = prefix

\* shlex.split(s) in POSIX mode over the alphabet {space, double quote,
\* word characters}.  st is shlex's scanner state: "ws" between tokens, "a"
\* inside a word, "q" inside a double-quoted section.  The result is
\* [ok |-> FALSE] when shlex raises ValueError("No closing quotation").
ShlexEmit(parts, tok, quoted) ==
  IF tok # <<>> \/ quoted THEN Append(parts, tok) ELSE parts

RECURSIVE ShlexRun(_, _, _, _, _, _)
ShlexRun(s, i, st, tok, quoted, parts) ==
  IF i > Len(s)
    THEN IF st = "q"
           THEN [ok |-> FALSE, parts |-> <<>>]
           ELSE [ok |-> TRUE, parts |-> ShlexEmit(parts, tok, quoted)]
    ELSE LET c == s[i] IN
      CASE st = "ws" /\ c = SP -> ShlexRun(s, i + 1, "ws", <<>>, FALSE, parts)
        [] st = "ws" /\ c = DQ -> ShlexRun(s, i + 1, "q", <<>>, TRUE, parts)
        [] st = "ws" /\ c \notin {SP, DQ} ->
             ShlexRun(s, i + 1, "a", <<c>>, FALSE, parts)
        [] st = "q" /\ c = DQ -> ShlexRun(s, i + 1, "a", tok, quoted, parts)
        [] st = "q" /\ c # DQ ->
             ShlexRun(s, i + 1, "q", Append(tok, c), quoted, parts)
        [] st = "a" /\ c = SP ->
             ShlexRun(s, i + 1, "ws", <<>>, FALSE, ShlexEmit(parts, tok, quoted))
        [] st = "a" /\ c = DQ -> ShlexRun(s, i + 1, "q", tok, TRUE, parts)
        [] OTHER -> ShlexRun(s, i + 1, "a", Append(tok, c), quoted, parts)

ShlexSplit(s) == ShlexRun(s, 1, "ws", <<>>, FALSE, <<>>)

\* str(i + 1) of handle_resource's resource_map, for one-digit positions
Digits == <<"1", "2", "3", "4", "5", "6", "7", "8", "9">>
IndexStr(k) == <<Digits[k]>>

\* ------------------------------------------------------------ the server
\* What the MCP server answers to list_prompts: each prompt has a name and
\* an argument list; mcp.types.Prompt.arguments is optional, so absent
\* (Python None, the case list_prompts prints as "No arguments required")
\* is told apart from an empty list.
Prompt(n, args) == [name |-> n, absent |-> FALSE, arguments |-> args]
PromptNoArgs(n) == [name |-> n, absent |-> TRUE, arguments |-> <<>>]

\* What the server answers to list_resources: name and locator (uri) of
\* each resource, and whether read_resource returns a text-bearing block.
Resource(n, u, t) == [name |-> n, uri |-> u, text |-> t]

\* the server configurations of the model
Server(ps, rs) == [prompts |-> ps, resources |-> rs]

Servers ==
  { Server(<< Prompt(<<"s">>, << <<"t">> >>), PromptNoArgs(<<"n">>) >>,
           << Resource(<<"a">>, "uri1", TRUE),
              Resource(<<"b">>, "uri2", FALSE),
              Resource(<<"a">>, "uri3", TRUE) >>),
    Server(<< Prompt(<<"e">>, <<>>),
              Prompt(<<"d">>, << <<"t">>, <<"u">> >>) >>,
           << Resource(<<"2">>, "uri1", TRUE),
              Resource(<<"a">>, "uri2", TRUE) >>),
    Server(<< Prompt(<<"s">>, << <<"t">>, <<"t">> >>) >>, <<>>),
    Server(<<>>, <<>>) }

\* ------------------------------------------------------- the input lines
W_prompts == <<"/", "p", "r", "o", "m", "p", "t", "s">>
W_prompt == <<"/", "p", "r", "o", "m", "p", "t">>
W_resources == <<"/", "r", "e", "s", "o", "u", "r", "c", "e", "s">>
W_resource == <<"/", "r", "e", "s", "o", "u", "r", "c", "e">>
W_exit == <<"e", "x", "i", "t">>
W_quit == <<"q", "u", "i", "t">>
W_q == <<"q">>

PromptTails ==
  { <<>>,
    <<SP, "s", SP, "x">>,
    <<SP, "s">>,
    <<SP, "s", SP, "x", SP, "y">>,
    <<SP, "s", SP, DQ, "x">>,
    <<SP, "n">>,
    <<SP, "n", SP, "x">>,
    <<SP, "e">>,
    <<SP, "e", SP, "x">>,
    <<SP, "d", SP, "x">>,
    <<SP, "d", SP, "x", SP, DQ, "y", SP, "z", DQ>>,
    <<SP, "z">>,
    <<"x", SP, "z">> }

ResourceTails ==
  { <<>>,
    <<SP, "1">>,
    <<SP, "2">>,
    <<SP, "3">>,
    <<SP, "4">>,
    <<SP, "a">>,
    <<SP, "b">>,
    <<SP, "z">>,
    <<SP, DQ, "a", DQ>>,
    <<SP, DQ, "a">> }

ListTails == { <<>>, <<SP, "x">>, <<SP, DQ>> }

PlainLines == { <<"h", "i">> }

ExitLines ==
  { W_exit, W_quit, W_q, <<"Q">>, <<"E", "x", "I", "t">>,
    <<"Q", "U", "I", "T">>, <<SP, "q", SP>> }

\* the raw lines input() may return
Lines ==
  {W_prompts \o t : t \in ListTails}
    \cup {W_prompt \o t : t \in PromptTails}
    \cup {W_resources \o t : t \in ListTails}
    \cup {W_resource \o t : t \in ResourceTails}
    \cup PlainLines
    \cup ExitLines
    \cup { <<SP>> \o W_resource \o <<SP, "1", SP>> }

\* ------------------------------------------------------------- the state
VARIABLES
  pc,          \* where the program is: "input" (main at input()),
               \* "chat_node", "tool_node", "tool_wait" (ToolNode awaiting its
               \* gathered calls), "end" (graph at END), "exited", "crashed"
  caller,      \* who awaits agent.ainvoke: "main", "prompt" or "none"
  messages,    \* the graph's messages channel during a cycle
  checkpoint,  \* MemorySaver's latest snapshot for thread "wiki-session"
  step,        \* super-steps (node executions) of the running cycle
  rounds,      \* completed tool_node executions of the running cycle
  inflight,    \* indexes of the tool calls sent and not yet answered
  completed,   \* the tool calls answered in the last execution step, in
               \* order of completion
  line,        \* the user_input being processed (stripped)
  out,         \* what the running/last command printed
  calls,       \* the session calls the running/last command issued
  prompts,     \* the server's prompt listing
  resources,   \* the server's resource listing
  turns,       \* agent cycles started so far
  nextId,      \* source of fresh message and tool-call identifiers
  pre          \* the stored history when the running/last cycle started

vars ==
  << pc, caller, messages, checkpoint, step, rounds, inflight,
     completed, line, out, calls, prompts, resources, turns, nextId, pre >>

Report(k, d) == [kind |-> k, data |-> d]
NoOutput == Report("none", <<>>)

Init ==
  /\ pc = "input"
  /\ caller = "none"
  /\ messages = <<>>
  /\ checkpoint = <<>>
  /\ step = 0
  /\ rounds = 0
  /\ inflight = {}
  /\ completed = <<>>
  /\ line = <<>>
  /\ out = NoOutput
  /\ calls = <<>>
  /\ \E sv \in Servers :
       /\ prompts = sv.prompts
       /\ resources = sv.resources
  /\ turns = 0
  /\ nextId = 1
  /\ pre = <<>>

\* variant of Dispatch that tests the singular command words before the
\* plural ones
Dispatch_SingularFirst(user_input) ==
  CASE Lower(user_input) \in {W_exit, W_quit, W_q} -> "exit"
    [] OTHER ->
       IF StartsWith(user_input, W_prompt) THEN "handle_prompt"
       ELSE IF StartsWith(user_input, W_prompts) THEN "list_prompts"
       ELSE IF StartsWith(user_input, W_resource) THEN "handle_resource"
       ELSE IF StartsWith(user_input, W_resources) THEN "list_resources"
       ELSE "agent"

\* main's if/elif chain on user_input (already stripped)
Dispatch(user_input) ==
  CASE Lower(user_input) \in {W_exit, W_quit, W_q} -> "exit"
    [] OTHER ->
       IF StartsWith(user_input, W_prompts) THEN "list_prompts"
       ELSE IF StartsWith(user_input, W_prompt) THEN "handle_prompt"
       ELSE IF StartsWith(user_input, W_resources) THEN "list_resources"
       ELSE IF StartsWith(user_input, W_resource) THEN "handle_resource"
       ELSE "agent"

\* --------------------------------------------------------------- messages
UserMsg(i, text) ==
  [role |-> "user", id |-> i, content |-> text, tool_calls |-> <<>>,
   tool_call_id |-> 0, status |-> "none"]
AiMsg(i, reqs) ==
  [role |-> "assistant", id |-> i, content |-> <<>>, tool_calls |-> reqs,
   tool_call_id |-> 0, status |-> "none"]
ToolMsg(i, req, st) ==
  [role |-> "tool", id |-> i, content |-> <<>>, tool_calls |-> <<>>,
   tool_call_id |-> req, status |-> st]

IsPrefix(s, t) == Len(s) <= Len(t) /\ SubSeq(t, 1, Len(s)) = s

\* langgraph's add_messages, the reducer of State.messages: a message of
\* right whose id is the id of a message of left replaces it in place, any
\* other message of right is appended.
\* variant of AddOne that overwrites the newest message
AddOne_ReplacesLast(left, m) ==
  IF left = <<>> THEN <<m>> ELSE [left EXCEPT ![Len(left)] = m]

AddOne(left, m) ==
  IF \E i \in 1..Len(left) : left[i].id = m.id
    THEN [i \in 1..Len(left) |-> IF left[i].id = m.id THEN m ELSE left[i]]
    ELSE Append(left, m)

\* variant of add_messages without the reducer: the update replaces the list
add_messages_Overwrites(left, right) == right

RECURSIVE add_messages(_, _)
add_messages(left, right) ==
  IF right = <<>> THEN left
  ELSE add_messages(AddOne(left, Head(right)), Tail(right))

\* langgraph's tools_condition on the state chat_node has just written:
\* "tools" when the last message carries tool calls, "__end__" otherwise
tools_condition(msgs) ==
  IF Len(msgs[Len(msgs)].tool_calls) > 0 THEN "tools" ELSE "__end__"

\* variant of RouteAfterChat with the two targets exchanged
RouteAfterChat_Swapped(msgs) ==
  IF tools_condition(msgs) = "tools" THEN "end" ELSE "tool_node"

\* the conditional edge of chat_node: {"tools": "tool_node", "__end__": END}
RouteAfterChat(msgs) ==
  IF tools_condition(msgs) = "tools" THEN "tool_node" ELSE "end"

\* The compiled graph writes a checkpoint to the MemorySaver after every
\* super-step (the input step and each node execution), not only when the
\* graph reaches END.
\* variant of PutCheckpoint that saves only when the graph reaches END
PutCheckpoint_OnlyAtEnd(stored, state, atEnd) ==
  IF atEnd THEN state ELSE stored

PutCheckpoint(stored, state, atEnd) == state

\* ToolNode's outputs for the tool calls reqs: asyncio.gather returns the
\* results in the order of the awaitables, whatever the order of completion.
\* variant of ToolOutputs that lists the results as the calls complete
ToolOutputs_CompletionOrder(reqs, done, firstId) ==
  [k \in 1..Len(reqs) |->
     ToolMsg(firstId + k - 1, reqs[done[k].idx], done[k].status)]

ToolOutputs(reqs, done, firstId) ==
  [k \in 1..Len(reqs) |->
     ToolMsg(firstId + k - 1, reqs[k],
             done[CHOOSE j \in 1..Len(done) : done[j].idx = k].status)]

\* ------------------------------------------------------------- the agent
CanStartTurn == turns < MaxTurns

\* main is at input() and reads a line
ReadsInput == pc = "input" /\ Len(checkpoint) <= MaxPrior

\* variant of StartCycle in which handle_prompt runs the agent on a thread
\* of its own, which holds no history
StartCycle_PromptThread(text, who) ==
  /\ CanStartTurn
  /\ turns' = turns + 1
  /\ pre' = checkpoint
  /\ messages' = add_messages(IF who = "prompt" THEN <<>> ELSE checkpoint,
                              <<UserMsg(nextId, text)>>)
  /\ checkpoint' = PutCheckpoint(checkpoint, messages', FALSE)
  /\ nextId' = nextId + 1
  /\ caller' = who
  /\ pc' = "chat_node"
  /\ step' = 0
  /\ rounds' = 0
  /\ inflight' = {}
  /\ completed' = <<>>

\* agent.ainvoke({"messages": text}, thread "wiki-session"): the run is
\* primed with the stored history, the input is merged by add_messages
\* (which gives it a fresh id), and the input step is checkpointed.
StartCycle(text, who) ==
  /\ CanStartTurn
  /\ turns' = turns + 1
  /\ pre' = checkpoint
  /\ messages' = add_messages(checkpoint, <<UserMsg(nextId, text)>>)
  /\ checkpoint' = PutCheckpoint(checkpoint, messages', FALSE)
  /\ nextId' = nextId + 1
  /\ caller' = who
  /\ pc' = "chat_node"
  /\ step' = 0
  /\ rounds' = 0
  /\ inflight' = {}
  /\ completed' = <<>>

\* how the caller of ainvoke reports an exception leaving the graph:
\* main's "Error:" (line 221), handle_prompt's "Prompt invocation failed:"
\* (line 90); the run's working state is dropped, the checkpoint stays.
RaiseFromCycle(what) ==
  /\ out' = Report(IF caller = "main" THEN "Error:"
                   ELSE "Prompt invocation failed:", what)
  /\ pc' = "input"
  /\ caller' = "none"
  /\ messages' = checkpoint
  /\ inflight' = {}
  /\ completed' = <<>>
  /\ UNCHANGED << checkpoint, step, rounds, line, calls, prompts,
                  resources, turns, nextId, pre >>

\* the assistant messages of a history
Replies(msgs) == {i \in 1..Len(msgs) : msgs[i].role = "assistant"}

\* the numbers of tool requests the model's next reply may carry
ReplySizes ==
  IF Cardinality(Replies(messages)) < MaxVaried THEN 0..MaxCalls ELSE 0..1

\* chat_node: the model is called with the whole history and answers with
\* one assistant message, which add_messages merges into the history.
ChatNodeReply ==
  /\ pc = "chat_node"
  /\ step < RecursionLimit
  /\ \E n \in ReplySizes :
       LET reqs == [k \in 1..n |-> nextId + k]
       IN  /\ messages' = add_messages(messages, <<AiMsg(nextId, reqs)>>)
           /\ nextId' = nextId + 1 + n
  /\ pc' = RouteAfterChat(messages')
  /\ checkpoint' = PutCheckpoint(checkpoint, messages', pc' = "end")
  /\ step' = step + 1
  /\ completed' = <<>>
  /\ UNCHANGED << caller, rounds, inflight, line, out, calls, prompts,
                  resources, turns, pre >>

\* chat_node: the model call raises
ChatNodeRaise ==
  /\ pc = "chat_node"
  /\ step < RecursionLimit
  /\ RaiseFromCycle(<<"m", "o", "d", "e", "l">>)

\* the tool calls ToolNode has in flight once asyncio.gather has scheduled
\* one task per request: every request of the message
\* variant of Gathered that starts only the first request
Gathered_FirstOnly(reqs) == IF reqs = <<>> THEN {} ELSE {1}

Gathered(reqs) == 1..Len(reqs)

\* variant of ToolNodeStart that is not subject to the step budget
ToolNodeStart_NoBudget ==
  /\ pc = "tool_node"
  /\ inflight' = Gathered(messages[Len(messages)].tool_calls)
  /\ completed' = <<>>
  /\ pc' = "tool_wait"
  /\ UNCHANGED << caller, messages, checkpoint, step, rounds, line,
                  out, calls, prompts, resources, turns, nextId, pre >>

\* tool_node (ToolNode._afunc under ainvoke): one task per tool call of the
\* last assistant message is started by asyncio.gather
ToolNodeStart ==
  /\ pc = "tool_node"
  /\ step < RecursionLimit
  /\ inflight' = Gathered(messages[Len(messages)].tool_calls)
  /\ completed' = <<>>
  /\ pc' = "tool_wait"
  /\ UNCHANGED << caller, messages, checkpoint, step, rounds, line,
                  out, calls, prompts, resources, turns, nextId, pre >>

\* the outcomes a tool call may have; a tool that raises is turned into an
\* error ToolMessage by ToolNode (handle_tool_errors)
ToolStatuses ==
  IF Cardinality(Replies(messages)) <= MaxVaried
    THEN {"success", "error"} ELSE {"success"}

\* variant of ToolComplete without error handling in ToolNode: a tool call
\* that fails raises out of the graph
ToolComplete_ErrorRaises ==
  /\ pc = "tool_wait"
  /\ \E i \in inflight, st \in ToolStatuses :
       IF st = "error"
         THEN /\ RaiseFromCycle(<<"t", "o", "o", "l">>)
              /\ UNCHANGED line
         ELSE /\ inflight' = inflight \ {i}
              /\ completed' = Append(completed, [idx |-> i, status |-> st])
              /\ UNCHANGED << pc, caller, messages, checkpoint, step, rounds,
                              line, out, calls, prompts, resources, turns,
                              nextId, pre >>

\* the server answers one of the calls in flight
ToolComplete ==
  /\ pc = "tool_wait"
  /\ \E i \in inflight, st \in ToolStatuses :
       /\ inflight' = inflight \ {i}
       /\ completed' = Append(completed, [idx |-> i, status |-> st])
  /\ UNCHANGED << pc, caller, messages, checkpoint, step, rounds,
                  line, out, calls, prompts, resources, turns, nextId, pre >>

\* whether the gather of ToolNode may return
GatherDone(reqs, done, pending) == pending = {} /\ Len(done) = Len(reqs)

\* tool_node returns: one ToolMessage per request is merged into the
\* history, the step is checkpointed, and the edge leads back to chat_node
ToolNodeFinish ==
  /\ pc = "tool_wait"
  /\ LET reqs == messages[Len(messages)].tool_calls
     IN  /\ GatherDone(reqs, completed, inflight)
         /\ messages' =
              add_messages(messages, ToolOutputs(reqs, completed, nextId))
         /\ nextId' = nextId + Len(reqs)
  /\ checkpoint' = PutCheckpoint(checkpoint, messages', FALSE)
  /\ inflight' = {}
  /\ pc' = "chat_node"
  /\ step' = step + 1
  /\ rounds' = rounds + 1
  /\ UNCHANGED << caller, completed, line, out, calls, prompts, resources,
                  turns, pre >>

\* The step budget is used up.  After the writes of a node have been
\* merged and checkpointed the graph run compares its step count with the
\* budget, before it looks at what the node routed to: once the 25th node
\* of a cycle has run (the 13th run of chat_node, after 12 runs of
\* tool_node) GraphRecursionError is raised to the caller of ainvoke,
\* whether that reply asks for a tool or is a final answer.  step counts
\* the node executions of the cycle.
RecursionAbort ==
  /\ pc \in {"chat_node", "tool_node", "end"}
  /\ step >= RecursionLimit
  /\ RaiseFromCycle(<<"l", "i", "m", "i", "t">>)

\* variant of CycleReturn that prints the first message of the returned
\* state
CycleReturn_ShowsFirst ==
  /\ pc = "end"
  /\ step < RecursionLimit
  /\ out' = Report(IF caller = "main" THEN "AI:" ELSE "=== Prompt Result ===",
                   messages[1])
  /\ pc' = "input"
  /\ caller' = "none"
  /\ UNCHANGED << messages, checkpoint, step, rounds, inflight,
                  completed, line, calls, prompts, resources, turns, nextId,
                  pre >>

\* the graph is at END within the step budget: ainvoke returns the state
\* and the caller prints response["messages"][-1].content (lines 86-87,
\* 219)
CycleReturn ==
  /\ pc = "end"
  /\ step < RecursionLimit
  /\ out' = Report(IF caller = "main" THEN "AI:" ELSE "=== Prompt Result ===",
                   messages[Len(messages)])
  /\ pc' = "input"
  /\ caller' = "none"
  /\ UNCHANGED << messages, checkpoint, step, rounds, inflight,
                  completed, line, calls, prompts, resources, turns, nextId,
                  pre >>

\* ----------------------------------------------------------- the commands
Call(op, arg) == [op |-> op, arg |-> arg]

\* next((x for x in listing if x.name == n), None): position of the first
\* entry named n, 0 when there is none
FirstNamed(listing, n) ==
  IF \E i \in 1..Len(listing) : listing[i].name = n
    THEN CHOOSE i \in 1..Len(listing) :
           /\ listing[i].name = n
           /\ \A j \in 1..(i - 1) : listing[j].name # n
    ELSE 0

Names(arguments) == [i \in 1..Len(arguments) |-> arguments[i]]

\* variant of ArgValues that pairs the names with the values taken from
\* the end
ArgValues_Reversed(arguments, args) ==
  LET n == IF Len(arguments) < Len(args) THEN Len(arguments) ELSE Len(args)
  IN  [a \in {arguments[i] : i \in 1..n} |->
         args[n + 1 - CHOOSE i \in 1..n :
                /\ arguments[i] = a
                /\ \A j \in (i + 1)..n : arguments[j] # a]]

\* {arg.name: val for arg, val in zip(match.arguments, args)}: a dict, so a
\* later pair with the same name overwrites an earlier one
ArgValues(arguments, args) ==
  LET n == IF Len(arguments) < Len(args) THEN Len(arguments) ELSE Len(args)
  IN  [a \in {arguments[i] : i \in 1..n} |->
         args[CHOOSE i \in 1..n :
                /\ arguments[i] = a
                /\ \A j \in (i + 1)..n : arguments[j] # a]]

\* the text the server renders for get_prompt(name, arg_values)
RECURSIVE RenderArgs(_, _)
RenderArgs(arguments, arg_values) ==
  IF arguments = <<>> THEN <<>>
  ELSE <<":">> \o arg_values[Head(arguments)]
         \o RenderArgs(Tail(arguments), arg_values)

RenderPrompt(p, arg_values) ==
  <<"#">> \o p.name \o RenderArgs(p.arguments, arg_values)

\* handle_prompt up to the agent call.  listFails / getFails: the
\* list_prompts / get_prompt call raises.  The result says how the handler
\* goes on: "crash" (an exception leaves the handler), "report" (it prints
\* out and returns) or "invoke" (it calls agent.ainvoke with text).
PromptResult(e, o, c, t) == [end |-> e, out |-> o, calls |-> c, text |-> t]

\* variant of handle_prompt that asks the server for the prompt before it
\* compares the argument counts
handle_prompt_FetchFirst(command, listFails, getFails) ==
  LET sp == ShlexSplit(Strip(command))
      parts == sp.parts
      prompt_name == parts[2]
      args == SubSeq(parts, 3, Len(parts))
      listed == <<Call("list_prompts", <<>>)>>
      at == FirstNamed(prompts, prompt_name)
      match == prompts[at]
      arg_values == ArgValues(match.arguments, args)
      got == Append(listed, Call("get_prompt", <<prompt_name, arg_values>>))
  IN  IF ~sp.ok
        THEN PromptResult("crash", Report("ValueError", <<>>), <<>>, <<>>)
      ELSE IF Len(parts) < 2
        THEN PromptResult("report", Report("Usage: /prompt", <<>>), <<>>, <<>>)
      ELSE IF listFails
        THEN PromptResult("report",
               Report("Prompt invocation failed:", <<"l", "i", "s", "t">>),
               listed, <<>>)
      ELSE IF at = 0
        THEN PromptResult("report", Report("not found", prompt_name),
                          listed, <<>>)
      ELSE IF match.absent
        THEN PromptResult("report",
               Report("Prompt invocation failed:", <<"l", "e", "n">>),
               listed, <<>>)
      ELSE IF getFails
        THEN PromptResult("report",
               Report("Prompt invocation failed:", <<"g", "e", "t">>),
               got, <<>>)
      ELSE IF Len(args) # Len(match.arguments)
        THEN PromptResult("report",
               Report("Expected arguments:", Names(match.arguments)),
               got, <<>>)
      ELSE PromptResult("invoke", NoOutput, got,
                        RenderPrompt(match, arg_values))

handle_prompt(command, listFails, getFails) ==
  LET sp == ShlexSplit(Strip(command))
      parts == sp.parts
      prompt_name == parts[2]
      args == SubSeq(parts, 3, Len(parts))
      listed == <<Call("list_prompts", <<>>)>>
      at == FirstNamed(prompts, prompt_name)
      match == prompts[at]
      arg_values == ArgValues(match.arguments, args)
      got == Append(listed, Call("get_prompt", <<prompt_name, arg_values>>))
  IN  IF ~sp.ok
        THEN PromptResult("crash", Report("ValueError", <<>>), <<>>, <<>>)
      ELSE IF Len(parts) < 2
        THEN PromptResult("report", Report("Usage: /prompt", <<>>), <<>>, <<>>)
      ELSE IF listFails
        THEN PromptResult("report",
               Report("Prompt invocation failed:", <<"l", "i", "s", "t">>),
               listed, <<>>)
      ELSE IF at = 0
        THEN PromptResult("report", Report("not found", prompt_name),
                          listed, <<>>)
      ELSE IF match.absent
        THEN PromptResult("report",
               Report("Prompt invocation failed:", <<"l", "e", "n">>),
               listed, <<>>)
      ELSE IF Len(args) # Len(match.arguments)
        THEN PromptResult("report",
               Report("Expected arguments:", Names(match.arguments)),
               listed, <<>>)
      ELSE IF getFails
        THEN PromptResult("report",
               Report("Prompt invocation failed:", <<"g", "e", "t">>),
               got, <<>>)
      ELSE PromptResult("invoke", NoOutput, got,
                        RenderPrompt(match, arg_values))

\* variant of ResolveName whose resource_map is keyed by str(i)
ResolveName_ZeroBased(listing, resource_id) ==
  IF \E i \in 1..(Len(listing) - 1) : IndexStr(i) = resource_id
    THEN listing[(CHOOSE i \in 1..(Len(listing) - 1) :
                    IndexStr(i) = resource_id) + 1].name
    ELSE resource_id

\* resource_map = {str(i + 1): r.name for i, r in enumerate(resources)}
\* and resource_map.get(resource_id, resource_id)
ResolveName(listing, resource_id) ==
  IF \E i \in 1..Len(listing) : IndexStr(i) = resource_id
    THEN listing[CHOOSE i \in 1..Len(listing) : IndexStr(i) = resource_id].name
    ELSE resource_id

\* the position in the listing of the resource handle_resource reads for
\* resource_id, 0 when it reports "not found"
ResolveResource(listing, resource_id) ==
  FirstNamed(listing, ResolveName(listing, resource_id))

ResourceResult(e, o, c) == [end |-> e, out |-> o, calls |-> c]

\* variant of handle_resource that looks the identifier up in a listing kept
\* by an earlier /resources command (none has been kept) instead of asking
\* the server
handle_resource_KeptListing(command, listFails, readFails) ==
  LET sp == ShlexSplit(Strip(command))
      parts == sp.parts
  IN  IF ~sp.ok
        THEN ResourceResult("crash", Report("ValueError", <<>>), <<>>)
      ELSE IF Len(parts) < 2
        THEN ResourceResult("report", Report("Usage: /resource", <<>>), <<>>)
      ELSE ResourceResult("report", Report("not found", parts[2]), <<>>)

handle_resource(command, listFails, readFails) ==
  LET sp == ShlexSplit(Strip(command))
      parts == sp.parts
      resource_id == parts[2]
      listed == <<Call("list_resources", <<>>)>>
      at == ResolveResource(resources, resource_id)
      match == resources[at]
      read == Append(listed, Call("read_resource", match.uri))
  IN  IF ~sp.ok
        THEN ResourceResult("crash", Report("ValueError", <<>>), <<>>)
      ELSE IF Len(parts) < 2
        THEN ResourceResult("report", Report("Usage: /resource", <<>>), <<>>)
      ELSE IF listFails
        THEN ResourceResult("report",
               Report("Resource fetch failed:", <<"l", "i", "s", "t">>), listed)
      ELSE IF at = 0
        THEN ResourceResult("report", Report("not found", resource_id), listed)
      ELSE IF readFails
        THEN ResourceResult("report",
               Report("Resource fetch failed:", <<"r", "e", "a", "d">>), read)
      \* the header and the text are printed for a content block that has
      \* a text; for a resource without one nothing is printed
      ELSE IF match.text
        THEN ResourceResult("report",
               Report("=== Resource Text ===", <<match.uri>>), read)
      ELSE ResourceResult("report", NoOutput, read)

\* list_prompts(session): no try/except around the call
list_prompts(listFails) ==
  IF listFails
    THEN ResourceResult("crash", Report("Exception", <<>>),
                        <<Call("list_prompts", <<>>)>>)
  ELSE IF prompts = <<>>
    THEN ResourceResult("report", Report("No prompts found", <<>>),
                        <<Call("list_prompts", <<>>)>>)
  ELSE ResourceResult("report",
         Report("Available Prompts",
                [i \in 1..Len(prompts) |->
                   <<prompts[i].name,
                     IF prompts[i].absent THEN <<>>
                     ELSE prompts[i].arguments>>]),
         <<Call("list_prompts", <<>>)>>)

\* list_resources(session): the call is inside try/except
list_resources(listFails) ==
  IF listFails
    THEN ResourceResult("report", Report("Failed to list resources:", <<>>),
                        <<Call("list_resources", <<>>)>>)
  ELSE IF resources = <<>>
    THEN ResourceResult("report", Report("No resources found", <<>>),
                        <<Call("list_resources", <<>>)>>)
  ELSE ResourceResult("report",
         Report("Available Resources",
                [i \in 1..Len(resources) |->
                   <<IndexStr(i), resources[i].name>>]),
         <<Call("list_resources", <<>>)>>)

\* variant of AfterHandler in which a command starts the conversation
\* afresh
AfterHandler_ResetsConversation(r) ==
  /\ pc' = IF r.end = "crash" THEN "crashed" ELSE "input"
  /\ out' = r.out
  /\ calls' = r.calls
  /\ messages' = <<>>
  /\ checkpoint' = <<>>
  /\ UNCHANGED << caller, step, rounds, inflight, completed, prompts,
                  resources, turns, nextId, pre >>

\* how main goes on after a handler that did not call the agent: back to
\* input(), or out of the loop when an exception left the handler
AfterHandler(r) ==
  /\ pc' = IF r.end = "crash" THEN "crashed" ELSE "input"
  /\ out' = r.out
  /\ calls' = r.calls
  /\ UNCHANGED << caller, messages, checkpoint, step, rounds,
                  inflight, completed, prompts, resources, turns, nextId,
                  pre >>

\* main: exit / quit / q
CmdExit ==
  /\ ReadsInput
  /\ \E raw \in Lines :
       /\ Dispatch(Strip(raw)) = "exit"
       /\ line' = Strip(raw)
  /\ pc' = "exited"
  /\ out' = NoOutput
  /\ calls' = <<>>
  /\ UNCHANGED << caller, messages, checkpoint, step, rounds,
                  inflight, completed, prompts, resources, turns, nextId,
                  pre >>

\* main: /prompts
CmdListPrompts ==
  /\ ReadsInput
  /\ \E raw \in Lines, listFails \in BOOLEAN :
       /\ Dispatch(Strip(raw)) = "list_prompts"
       /\ line' = Strip(raw)
       /\ AfterHandler(list_prompts(listFails))

\* main: /resources
CmdListResources ==
  /\ ReadsInput
  /\ \E raw \in Lines, listFails \in BOOLEAN :
       /\ Dispatch(Strip(raw)) = "list_resources"
       /\ line' = Strip(raw)
       /\ AfterHandler(list_resources(listFails))

\* main: /resource
CmdResource ==
  /\ ReadsInput
  /\ \E raw \in Lines, listFails \in BOOLEAN, readFails \in BOOLEAN :
       /\ Dispatch(Strip(raw)) = "handle_resource"
       /\ line' = Strip(raw)
       /\ AfterHandler(handle_resource(line', listFails, readFails))

\* main: /prompt, ending before the agent is called
CmdPromptReport ==
  /\ ReadsInput
  /\ \E raw \in Lines, listFails \in BOOLEAN, getFails \in BOOLEAN :
       /\ Dispatch(Strip(raw)) = "handle_prompt"
       /\ line' = Strip(raw)
       /\ handle_prompt(line', listFails, getFails).end # "invoke"
       /\ AfterHandler(handle_prompt(line', listFails, getFails))

\* main: /prompt, calling the agent with the rendered prompt text
CmdPromptInvoke ==
  /\ ReadsInput
  /\ \E raw \in Lines :
       LET r == handle_prompt(Strip(raw), FALSE, FALSE)
       IN  /\ Dispatch(Strip(raw)) = "handle_prompt"
           /\ r.end = "invoke"
           /\ line' = Strip(raw)
           /\ out' = r.out
           /\ calls' = r.calls
           /\ StartCycle(r.text, "prompt")
  /\ UNCHANGED << prompts, resources >>

\* main: any other line is a conversational turn
CmdChat ==
  /\ ReadsInput
  /\ \E raw \in Lines :
       /\ Dispatch(Strip(raw)) = "agent"
       /\ line' = Strip(raw)
       /\ StartCycle(line', "main")
  /\ out' = NoOutput
  /\ calls' = <<>>
  /\ UNCHANGED << prompts, resources >>

Next ==
  \/ CmdExit
  \/ CmdListPrompts
  \/ CmdListResources
  \/ CmdResource
  \/ CmdPromptReport
  \/ CmdPromptInvoke
  \/ CmdChat
  \/ ChatNodeReply
  \/ ChatNodeRaise
  \/ ToolNodeStart
  \/ ToolComplete
  \/ ToolNodeFinish
  \/ RecursionAbort
  \/ CycleReturn

Spec == Init /\ [][Next]_vars

\* ================================================================ claims
Last(msgs) == msgs[Len(msgs)]
InCycle == pc \in {"chat_node", "tool_node", "tool_wait", "end"}

\* position of the last assistant message of a history (0 when none)
LastReply(msgs) ==
  IF Replies(msgs) = {} THEN 0
  ELSE CHOOSE i \in Replies(msgs) : \A j \in Replies(msgs) : j <= i

\* C1: when the execution node has run on an assistant message carrying
\* N >= 1 tool requests, the history ends with that message followed by
\* exactly N tool-result messages, the k-th of which answers the k-th
\* request.
C1_ResultsAnswerRequestsInOrder ==
  (pc = "chat_node" /\ rounds > 0) =>
    LET a == LastReply(messages)
        reqs == messages[a].tool_calls
    IN  /\ a > 0
        /\ Len(reqs) >= 1
        /\ Len(messages) = a + Len(reqs)
        /\ \A k \in 1..Len(reqs) :
             /\ messages[a + k].role = "tool"
             /\ messages[a + k].tool_call_id = reqs[k]

\* C1 witness: the execution node has answered a message with two requests
\* whose calls completed in the reverse of the request order.
C1_Witness ==
  /\ pc = "chat_node"
  /\ rounds = 1
  /\ Len(messages[LastReply(messages)].tool_calls) = 2
  /\ Len(completed) = 2
  /\ completed[1].idx = 2
  /\ messages[Len(messages)].tool_call_id =
       messages[LastReply(messages)].tool_calls[2]

\* C2: a completed reasoning step moves the graph to the execution node
\* exactly when the assistant message it produced carries a tool request,
\* and to END otherwise; END is never entered with a pending tool request
\* and the execution node never with none.
C2_RoutingFollowsToolRequests ==
  [][ /\ (pc = "chat_node" /\ messages' # messages) =>
           /\ Last(messages').role = "assistant"
           /\ pc' = IF Len(Last(messages').tool_calls) >= 1
                      THEN "tool_node" ELSE "end"
      /\ (pc' = "end" =>
            /\ Last(messages').role = "assistant"
            /\ Len(Last(messages').tool_calls) = 0)
      /\ (pc' \in {"tool_node", "tool_wait"} =>
            /\ Last(messages').role = "assistant"
            /\ Len(Last(messages').tool_calls) >= 1) ]_vars

\* C2 witness: a turn that went through the execution node and then
\* reached END.
C2_Witness == pc = "end" /\ rounds >= 1

\* ---- the /prompt command that produced the current state
PromptCmd == Dispatch(line) = "handle_prompt"
PromptParts == ShlexSplit(Strip(line))
PromptAt ==
  IF PromptParts.ok /\ Len(PromptParts.parts) >= 2
    THEN FirstNamed(prompts, PromptParts.parts[2]) ELSE 0
SuppliedCount == Len(PromptParts.parts) - 2
\* number of declared parameters: none when the argument list is absent
DeclaredCount ==
  IF prompts[PromptAt].absent THEN 0 ELSE Len(prompts[PromptAt].arguments)
ListingFailed == out.data = <<"l", "i", "s", "t">>
Issued(op) == \E i \in 1..Len(calls) : calls[i].op = op

\* the /prompt command named a listed prompt, the listing was received,
\* and the supplied argument count differs from the declared one
CountMismatch ==
  /\ PromptCmd
  /\ PromptAt > 0
  /\ ~ListingFailed
  /\ SuppliedCount # DeclaredCount

\* C3 (as claimed): on an argument-count mismatch for a listed prompt no
\* get-prompt call is made, the agent is not invoked, and the expected
\* parameter names are shown.
C3_MismatchShowsExpectedNames ==
  CountMismatch =>
    /\ pc = "input"
    /\ ~Issued("get_prompt")
    /\ out.kind = "Expected arguments:"
    /\ out.data = Names(prompts[PromptAt].arguments)

\* ---- the /resource command that produced the current state
ResourceCmd == Dispatch(line) = "handle_resource"
ResourceParts == ShlexSplit(Strip(line))
ResourceId == ResourceParts.parts[2]
\* the locator the command read, "none" when it read nothing
UriRead ==
  IF Issued("read_resource")
    THEN calls[CHOOSE i \in 1..Len(calls) : calls[i].op = "read_resource"].arg
    ELSE "none"
\* the locator that /resource <name> reads from a listing
UriByName(listing, n) ==
  IF ResolveResource(listing, n) = 0 THEN "none"
  ELSE listing[ResolveResource(listing, n)].uri
\* /resource was given the 1-based position k of the received listing
GivenPosition(k) ==
  /\ ResourceCmd
  /\ pc = "input"
  /\ ResourceParts.ok
  /\ Len(ResourceParts.parts) >= 2
  /\ ~ListingFailed
  /\ ResourceId = IndexStr(k)
\* the name of the k-th resource is itself the position string of a
\* resource with another name
NameShadowed(listing, k) ==
  \E j \in 1..Len(listing) :
    /\ IndexStr(j) = listing[k].name
    /\ listing[j].name # listing[k].name

\* C4 (as claimed): /resource k reads the locator that /resource <name of
\* the k-th listed resource> reads, for every valid position k.
C4_PositionReadsSameAsName ==
  \A k \in 1..Len(resources) :
    GivenPosition(k) => UriRead = UriByName(resources, resources[k].name)

\* C4 (amended): the same, for every valid position k whose resource name
\* is not the position string of a resource with a different name.
C4_PositionReadsSameAsNameUnlessShadowed ==
  \A k \in 1..Len(resources) :
    (GivenPosition(k) /\ ~NameShadowed(resources, k)) =>
      UriRead = UriByName(resources, resources[k].name)

\* C4 witness: /resource 3 on a listing whose third name also names the
\* first resource was resolved and read.
C4_Witness ==
  /\ GivenPosition(3)
  /\ ~NameShadowed(resources, 3)
  /\ UriRead = "uri1"
  /\ out.kind = "=== Resource Text ==="

\* C5: a conversational turn in which the model answers without a tool
\* call leaves the stored history equal to the history before the turn
\* followed by the user message and one assistant message.
C5_NoToolTurnAddsTwo ==
  (pc = "input" /\ out.kind = "AI:" /\ rounds = 0) =>
    /\ Len(checkpoint) = Len(pre) + 2
    /\ IsPrefix(pre, checkpoint)
    /\ checkpoint[Len(pre) + 1].role = "user"
    /\ checkpoint[Len(pre) + 1].content = line
    /\ checkpoint[Len(pre) + 2].role = "assistant"

\* C5 witness: the second turn of a conversation, started on a non-empty
\* history, was answered without a tool call.
C5_Witness ==
  /\ pc = "input"
  /\ out.kind = "AI:"
  /\ rounds = 0
  /\ turns = 2
  /\ Len(pre) = 2
  /\ Len(checkpoint) = 4

\* the last command ended on the failure of one of its remote calls
\* (list-prompts, list-resources, get-prompt, read-resource, model call)
RemoteFailureReported ==
  \/ out.kind \in {"Exception", "Failed to list resources:",
                   "Resource fetch failed:", "Error:"}
  \/ (out.kind = "Prompt invocation failed:" /\ out.data # <<"l", "e", "n">>)

\* C6 (as claimed): whatever remote call of a command fails, the failure is
\* caught and reported and main goes on to read the next input; the
\* session is not terminated.
C6_RemoteFailureKeepsSession ==
  RemoteFailureReported => pc = "input"

\* C7 (as claimed): no /prompt or /resource line makes an error escape the
\* interactive loop.
C7_NoCommandLineCrashes ==
  (PromptCmd \/ ResourceCmd) => pc # "crashed"

\* C8 (as claimed): at most one tool call is in flight at any moment.
C8_AtMostOneInFlight == Cardinality(inflight) <= 1

\* C8 (amended): the calls for all N requests of an assistant message are
\* started together and may be in flight at once; calls are in flight only
\* inside the execution node, every request is either in flight or
\* answered, and no tool-result message is appended before all have been
\* answered.
C8_AllStartedResultsAfterAll ==
  /\ (pc # "tool_wait" => inflight = {})
  /\ (pc = "tool_wait" =>
        LET reqs == Last(messages).tool_calls
        IN  /\ Last(messages).role = "assistant"
            /\ inflight \subseteq 1..Len(reqs)
            /\ inflight \cup {completed[j].idx : j \in 1..Len(completed)}
                 = 1..Len(reqs)
            /\ Cardinality(inflight) + Len(completed) = Len(reqs))

\* C8 witness: two tool calls of one assistant message are in flight.
C8_Witness == pc = "tool_wait" /\ Cardinality(inflight) = 2

\* C9 (as claimed): a cycle that fails before END leaves the stored history
\* exactly as it was before the turn started.
C9_FailedCycleLeavesCheckpoint ==
  (pc = "input" /\ out.kind = "Error:") => checkpoint = pre

\* C9 (amended): the checkpoint is written after every completed step of a
\* cycle (input merge, reasoning step, execution step), so during a cycle
\* the stored history is the working history, and a cycle that fails before
\* END leaves the history before the turn extended by the user message and
\* the messages of the steps completed before the failure.
C9_CheckpointAfterEveryStep ==
  /\ (InCycle => checkpoint = messages)
  /\ (InCycle \/ (pc = "input" /\ out.kind = "Error:") =>
        LET new == SubSeq(checkpoint, Len(pre) + 1, Len(checkpoint))
        IN  /\ IsPrefix(pre, checkpoint)
            /\ Len(new) >= 1 + step
            /\ new[1].role = "user"
            /\ Cardinality({i \in 1..Len(new) : new[i].role = "user"}) = 1
            /\ Cardinality(Replies(new)) = step - rounds)

\* C9 witness: the model call raised after a tool round; the stored history
\* holds the user message, the assistant's request and the tool result of
\* the failed turn.
C9_Witness ==
  /\ pc = "input"
  /\ out.kind = "Error:"
  /\ rounds = 1
  /\ Len(checkpoint) >= Len(pre) + 3
  /\ Last(checkpoint).role = "tool"

\* C10: the conversation history is append-only: across every step (input
\* merge, reasoning step, execution step, failure, return) and across
\* turns, the working history and the stored history before the step are
\* prefixes of those after it.
C10_HistoryAppendOnly ==
  [][ /\ IsPrefix(messages, messages')
      /\ IsPrefix(checkpoint, checkpoint')
      /\ IsPrefix(checkpoint', messages') ]_vars

\* C10 witness: the second turn of the thread has merged its input, run the
\* reasoning and the execution node on top of the first turn's history.
C10_Witness ==
  /\ turns = 2
  /\ pc = "chat_node"
  /\ rounds = 1
  /\ Len(pre) = 2
  /\ IsPrefix(pre, messages)
  /\ Len(messages) >= Len(pre) + 3

\* C11: when a tool call of the execution node fails, the node is still
\* left only towards the reasoning node, with the turn's caller unchanged
\* and no output reported; the history gains one tool-result message per
\* request, and the message for a failed request answers that request and
\* carries the error status.
C11_ToolFailureBecomesResult ==
  [][ (pc = "tool_wait" /\ pc' # "tool_wait") =>
        LET reqs == Last(messages).tool_calls
        IN  /\ pc' = "chat_node"
            /\ caller' = caller
            /\ out' = out
            /\ Len(messages') = Len(messages) + Len(reqs)
            /\ IsPrefix(messages, messages')
            /\ \A j \in 1..Len(completed) :
                 LET m == messages'[Len(messages) + completed[j].idx]
                 IN  /\ m.role = "tool"
                     /\ m.tool_call_id = reqs[completed[j].idx]
                     /\ m.status = completed[j].status ]_vars

\* C11 witness: a turn reached END although the second of two tool calls
\* of its execution pass had failed; the failed request's result message
\* carries the error status, the other one does not.
C11_Witness ==
  /\ pc = "end"
  /\ rounds = 1
  /\ Len(messages) = Len(pre) + 5
  /\ messages[Len(pre) + 3].status = "success"
  /\ messages[Len(pre) + 4].status = "error"
  /\ messages[Len(pre) + 4].tool_call_id = messages[Len(pre) + 2].tool_calls[2]

\* ---- the step budget of one cycle
\* the cycle of the last turn was ended by GraphRecursionError
EndedByLimit ==
  /\ pc = "input"
  /\ out.kind \in {"Error:", "Prompt invocation failed:"}
  /\ out.data = <<"l", "i", "m", "i", "t">>
\* the execution passes that fit in the budget together with the reasoning
\* steps around them
MaxToolRounds == (RecursionLimit - 1) \div 2
\* the messages the current (or last) turn has added to the stored history
NewMessages == SubSeq(checkpoint, Len(pre) + 1, Len(checkpoint))
\* the assistant messages with tool requests among msgs
Requests(msgs) ==
  {i \in 1..Len(msgs) :
     msgs[i].role = "assistant" /\ Len(msgs[i].tool_calls) >= 1}

\* C12 (as claimed): the loop between the reasoning and the execution node
\* has no iteration cap: no turn is ended because of the number of tool
\* rounds the model asked for.
C12_NoIterationCap == ~EndedByLimit

\* C12 (amended): the loop is capped by the step budget of the graph run
\* (25 node executions, tested after every node): a turn makes at most 12
\* execution passes; with fewer than 12 passes made, neither the
\* execution node nor the return of the answer is cut off, and a turn that
\* returns an answer has made at most 11 passes; after the 12th pass the
\* 13th reply uses up the budget, and the turn is ended by the budget
\* whatever that reply holds, with 12 passes made and 13 assistant
\* messages stored.
C12_CappedByStepBudget ==
  /\ rounds <= MaxToolRounds
  /\ step <= RecursionLimit
  /\ (pc = "chat_node" => step = 2 * rounds /\ step < RecursionLimit)
  /\ (pc \in {"tool_node", "tool_wait", "end"} => step = 2 * rounds + 1)
  /\ (pc \in {"tool_node", "end"} =>
        (rounds < MaxToolRounds <=> step < RecursionLimit))
  /\ (EndedByLimit =>
        /\ rounds = MaxToolRounds
        /\ step = RecursionLimit
        /\ Cardinality(Replies(NewMessages)) = MaxToolRounds + 1
        /\ Last(checkpoint).role = "assistant")
  /\ ((pc = "input" /\ out.kind \in {"AI:", "=== Prompt Result ==="}) =>
        /\ rounds < MaxToolRounds
        /\ Cardinality(Requests(NewMessages)) = rounds
        /\ out.data = Last(checkpoint))

\* C12 witness: a turn was ended by the step budget after 12 execution
\* passes although its 13th reply asked for no tool.
C12_Witness ==
  /\ EndedByLimit
  /\ rounds = MaxToolRounds
  /\ Len(Last(checkpoint).tool_calls) = 0

\* ---- the start of a session: nothing has been read from the user yet
SessionStart ==
  /\ pc = "input"
  /\ line = <<>>
  /\ out = NoOutput
  /\ calls = <<>>
  /\ turns = 0
\* the last command was /resource with an identifier
ResourceCmdWithId ==
  /\ ResourceCmd
  /\ ResourceParts.ok
  /\ Len(ResourceParts.parts) >= 2

\* C13 (as claimed), for the first command of a session, before which no
\* /resources listing has been performed: a /resource command with an
\* identifier ends with "not found" and makes no read-resource call.
C13_UnlistedResourceNotFound ==
  [][ (SessionStart /\ ResourceCmdWithId') =>
        /\ out'.kind = "not found"
        /\ \A i \in 1..Len(calls') : calls'[i].op # "read_resource" ]_vars

\* C13 (amended): every /resource command with an identifier first makes
\* its own list-resources call and resolves the identifier against the
\* listing received, whether or not /resources was used before; when the
\* listing is received, the outcome is "not found" and no read-resource
\* call is made exactly when the identifier, taken as a position and
\* otherwise as a name, denotes no listed resource.
C13_ResourceListsItself ==
  ResourceCmdWithId =>
    /\ pc = "input"
    /\ Len(calls) >= 1
    /\ calls[1].op = "list_resources"
    /\ (~ListingFailed =>
          /\ (out.kind = "not found"
                <=> ResolveResource(resources, ResourceId) = 0)
          /\ (Issued("read_resource")
                <=> ResolveResource(resources, ResourceId) # 0))
    /\ (ListingFailed => ~Issued("read_resource"))

\* C13 witness: before any conversational turn, /resource with the name of
\* a listed resource listed the resources itself and read the resource.
C13_Witness ==
  /\ ResourceCmdWithId
  /\ turns = 0
  /\ ResourceId = <<"a">>
  /\ Len(calls) = 2
  /\ calls[1].op = "list_resources"
  /\ calls[2].op = "read_resource"
  /\ out.kind = "=== Resource Text ==="

\* ---- validation errors of the two parameterised commands
\* the last command was /prompt with a prompt name
PromptCmdWithName ==
  /\ PromptCmd
  /\ PromptParts.ok
  /\ Len(PromptParts.parts) >= 2
\* the command whose line is l and whose output is o, on a server listing
\* the prompts ps and the resources rs, received its listing and named a
\* prompt or resource the listing does not hold, or supplied another
\* number of arguments than the prompt declares
ValidationErrorOf(l, o, ps, rs) ==
  LET target == Dispatch(l)
      sp == ShlexSplit(Strip(l))
      name == sp.parts[2]
      at == FirstNamed(ps, name)
      declared == IF ps[at].absent THEN 0 ELSE Len(ps[at].arguments)
      listFailed ==
        /\ o.kind \in {"Prompt invocation failed:", "Resource fetch failed:"}
        /\ o.data = <<"l", "i", "s", "t">>
  IN  /\ ~listFailed
      /\ target \in {"handle_prompt", "handle_resource"}
      /\ sp.ok
      /\ Len(sp.parts) >= 2
      /\ IF target = "handle_prompt"
           THEN at = 0 \/ Len(sp.parts) - 2 # declared
           ELSE ResolveResource(rs, name) = 0
\* the listing call of the last command raised
ListCallFailed ==
  /\ out.kind \in {"Prompt invocation failed:", "Resource fetch failed:"}
  /\ out.data = <<"l", "i", "s", "t">>
\* the last command ended on a validation error
ValidationError == ValidationErrorOf(line, out, prompts, resources)

\* C14 (as claimed): a command that ends on a validation error has issued
\* no remote call and has left the working and the stored history as they
\* were.
C14_ValidationBeforeAnyCall ==
  [][ ValidationErrorOf(line', out', prompts', resources') =>
        /\ calls' = <<>>
        /\ messages' = messages
        /\ checkpoint' = checkpoint ]_vars

\* C14 (amended): a command that ends on a validation error has issued its
\* listing call (list-prompts or list-resources) and nothing else: no
\* get-prompt or read-resource call is made, the agent is not invoked, and
\* the working and the stored history are as they were.
C14_ValidationAfterListingOnly ==
  [][ ValidationErrorOf(line', out', prompts', resources') =>
        /\ pc' = "input"
        /\ calls' = <<Call(IF PromptCmd' THEN "list_prompts"
                           ELSE "list_resources", <<>>)>>
        /\ messages' = messages
        /\ checkpoint' = checkpoint
        /\ turns' = turns ]_vars

\* C14 witness: on a conversation with stored history, /prompt named a
\* listed prompt with the wrong number of arguments; only the listing call
\* was made.
C14_Witness ==
  /\ ValidationError
  /\ PromptCmd
  /\ PromptAt > 0
  /\ out.kind = "Expected arguments:"
  /\ Len(checkpoint) >= 2
  /\ calls = <<Call("list_prompts", <<>>)>>

\* ---- the listing commands
\* the last command was a listing command of the given kind and the
\* listing was received (kinds: the outputs of a received listing)
Listed(target, kinds) ==
  /\ pc = "input"
  /\ Dispatch(line) = target
  /\ out.kind \in kinds
PromptsListed ==
  Listed("list_prompts", {"Available Prompts", "No prompts found"})
ResourcesListed ==
  Listed("list_resources", {"Available Resources", "No resources found"})

\* C15: a listing command that directly follows a listing command of the
\* same kind shows the same listing (both listings received, the server
\* being the same), and a listing command makes its listing call only and
\* leaves the working history, the stored history and the turn counters as
\* they were.
C15_ListingIdempotent ==
  [][ /\ ((PromptsListed /\ PromptsListed') => out' = out)
      /\ ((ResourcesListed /\ ResourcesListed') => out' = out)
      /\ (Dispatch(line') \in {"list_prompts", "list_resources"} =>
            /\ calls' = <<Call(Dispatch(line'), <<>>)>>
            /\ messages' = messages
            /\ checkpoint' = checkpoint
            /\ turns' = turns
            /\ pre' = pre
            /\ nextId' = nextId) ]_vars

\* C15 witness: on a conversation with stored history, the prompts were
\* listed by a line other than the bare /prompts, as the second of two
\* listing lines must be for the state to change.
C15_Witness ==
  /\ PromptsListed
  /\ line # W_prompts
  /\ out.kind = "Available Prompts"
  /\ Len(out.data) = 2
  /\ Len(checkpoint) >= 2
  /\ checkpoint = messages

\* C16 (as claimed): in every turn the number of execution passes equals
\* the number of assistant messages with tool requests the model produced
\* in the turn, whenever no such message is waiting for its pass (the
\* reasoning node is next, the graph is at END, or the turn is over), and
\* at END the last message is an assistant message without tool requests.
C16_PassesEqualRequests ==
  /\ (pc \in {"chat_node", "end", "input"} =>
        rounds = Cardinality(Requests(NewMessages)))
  /\ (pc = "end" =>
        /\ Last(messages).role = "assistant"
        /\ Len(Last(messages).tool_calls) = 0)

\* C16 (amended): the execution node is always followed by the reasoning
\* node within the same turn, without input being read; whenever no
\* assistant message is waiting for its pass, and so in every turn that
\* reaches END, the number of execution passes equals the number of
\* assistant messages with tool requests of the turn, and the message
\* shown to the caller of a returned turn is the last message of the
\* history, an assistant message without tool requests; a turn ended by
\* the step budget has made one pass less than the model produced such
\* messages when its last reply asked for a tool, and as many otherwise.
C16_PassesEqualRequestsAtEnd ==
  [][ /\ ((pc = "tool_wait" /\ pc' # "tool_wait") =>
            /\ pc' = "chat_node"
            /\ line' = line
            /\ turns' = turns
            /\ rounds' = rounds + 1)
      /\ (pc' \in {"chat_node", "end"} =>
            rounds' = Cardinality(Requests(NewMessages')))
      /\ (pc' \in {"tool_node", "tool_wait"} =>
            rounds' + 1 = Cardinality(Requests(NewMessages')))
      /\ (EndedByLimit' =>
            Cardinality(Requests(NewMessages')) =
              rounds' + IF Len(Last(checkpoint').tool_calls) >= 1
                          THEN 1 ELSE 0)
      /\ ((pc = "end" /\ pc' = "input" /\ step < RecursionLimit) =>
            /\ out'.kind \in {"AI:", "=== Prompt Result ==="}
            /\ out'.data = Last(messages)
            /\ out'.data = Last(checkpoint')
            /\ out'.data.role = "assistant"
            /\ Len(out'.data.tool_calls) = 0) ]_vars

\* C16 witness: a turn in which the model asked for a tool once and then
\* answered has returned after exactly one execution pass.
C16_Witness ==
  /\ pc = "input"
  /\ out.kind = "AI:"
  /\ rounds = 1
  /\ Cardinality(Requests(NewMessages)) = 1
  /\ Len(NewMessages) = 4
  /\ out.data = Last(checkpoint)

\* ---- the get-prompt call of the last /prompt command
GetPromptCall ==
  calls[CHOOSE i \in 1..Len(calls) : calls[i].op = "get_prompt"]

\* C17 (as claimed): when /prompt has made its get-prompt call, the call
\* names the prompt asked for, the supplied argument count is the declared
\* one, and the argument map binds the i-th supplied argument to the i-th
\* declared parameter name, for every i, and has one entry per declared
\* parameter.
C17_ArgumentsBoundInOrder ==
  Issued("get_prompt") =>
    LET sp == PromptParts
        supplied == SubSeq(sp.parts, 3, Len(sp.parts))
        at == FirstNamed(prompts, sp.parts[2])
        declared == prompts[at].arguments
        call == GetPromptCall
        arg_values == call.arg[2]
    IN  /\ PromptCmd
        /\ sp.ok
        /\ Len(sp.parts) >= 2
        /\ at > 0
        /\ call.arg[1] = sp.parts[2]
        /\ Len(supplied) = Len(declared)
        /\ DOMAIN arg_values = {declared[i] : i \in 1..Len(declared)}
        /\ Cardinality(DOMAIN arg_values) = Len(declared)
        /\ \A i \in 1..Len(declared) : arg_values[declared[i]] = supplied[i]

\* the declared parameter names are pairwise different
DistinctNames(declared) ==
  \A i, j \in 1..Len(declared) : declared[i] = declared[j] => i = j

\* C17 (amended): when /prompt has made its get-prompt call, the call
\* names the prompt asked for, the supplied argument count is the declared
\* one, and the argument map has one entry per different declared name,
\* bound to the supplied argument at the last position at which that name
\* is declared; when the declared names are pairwise different this binds
\* the i-th argument to the i-th name for every i, with one entry per
\* declared parameter.
C17_ArgumentsBoundLastWins ==
  Issued("get_prompt") =>
    LET sp == PromptParts
        supplied == SubSeq(sp.parts, 3, Len(sp.parts))
        at == FirstNamed(prompts, sp.parts[2])
        declared == prompts[at].arguments
        call == GetPromptCall
        arg_values == call.arg[2]
    IN  /\ PromptCmd
        /\ sp.ok
        /\ Len(sp.parts) >= 2
        /\ at > 0
        /\ call.arg[1] = sp.parts[2]
        /\ Len(supplied) = Len(declared)
        /\ DOMAIN arg_values = {declared[i] : i \in 1..Len(declared)}
        /\ \A i \in 1..Len(declared) :
             (\A j \in (i + 1)..Len(declared) : declared[j] # declared[i])
               => arg_values[declared[i]] = supplied[i]
        /\ (DistinctNames(declared) =>
              /\ Cardinality(DOMAIN arg_values) = Len(declared)
              /\ \A i \in 1..Len(declared) :
                   arg_values[declared[i]] = supplied[i])

\* C17 witness: get-prompt was called for a prompt with two parameters,
\* the second argument being a quoted one with a space inside.
C17_Witness ==
  /\ Issued("get_prompt")
  /\ Len(prompts[PromptAt].arguments) = 2
  /\ GetPromptCall.arg[2][<<"t">>] = <<"x">>
  /\ GetPromptCall.arg[2][<<"u">>] = <<"y", SP, "z">>

\* the text the server renders for the get-prompt call among the calls cs
\* of the /prompt line l, on a server listing the prompts ps
RenderedFor(l, cs, ps) ==
  LET sp == ShlexSplit(Strip(l))
      at == FirstNamed(ps, sp.parts[2])
      call == cs[CHOOSE i \in 1..Len(cs) : cs[i].op = "get_prompt"]
  IN  RenderPrompt(ps[at], call.arg[2])
\* the messages that the history after has on top of the history before
AddedTo(before, after) == SubSeq(after, Len(before) + 1, Len(after))

\* C18: /prompt and plain-text turns work on one conversation.  A cycle
\* started by either of them starts from the stored history and appends
\* one user message to it, which for /prompt holds the text the server
\* rendered for the call made; when a /prompt cycle returns, the stored
\* history is the history before it, followed by that user message and by
\* the assistant and tool messages of the cycle.
C18_PromptSharesConversation ==
  [][ /\ ((pc = "input" /\ pc' = "chat_node") =>
            /\ pre' = checkpoint
            /\ IsPrefix(checkpoint, messages')
            /\ Len(messages') = Len(checkpoint) + 1
            /\ checkpoint' = messages'
            /\ Last(messages').role = "user"
            /\ (caller' = "main" => Last(messages').content = line')
            /\ (caller' = "prompt" =>
                  Last(messages').content =
                    RenderedFor(line', calls', prompts')))
      /\ ((pc = "end" /\ pc' = "input" /\ caller = "prompt"
             /\ step < RecursionLimit) =>
            /\ out'.kind = "=== Prompt Result ==="
            /\ IsPrefix(pre', checkpoint')
            /\ LET new == AddedTo(pre', checkpoint')
               IN  /\ new[1].role = "user"
                   /\ new[1].content = RenderedFor(line', calls', prompts')
                   /\ \A i \in 2..Len(new) :
                        new[i].role \in {"assistant", "tool"}) ]_vars

\* C18 witness: a plain-text turn is running on the history that a
\* returned /prompt invocation left: the rendered prompt text as a user
\* message and the assistant's answer to it.
C18_Witness ==
  /\ caller = "main"
  /\ pc = "chat_node"
  /\ turns = 2
  /\ Len(pre) = 2
  /\ pre[1].role = "user"
  /\ pre[1].content = <<"#", "s", ":", "x">>
  /\ pre[2].role = "assistant"
  /\ IsPrefix(pre, messages)
  /\ Last(messages).content = line

\* ---- where a line is to go, and where the last line went
\* the target the line l is to reach
Target(l) ==
  LET isExit == Lower(l) \in {W_exit, W_quit, W_q}
      plural(w) == StartsWith(l, w \o <<"s">>)
      singular(w) == StartsWith(l, w) /\ ~plural(w)
  IN  CASE isExit -> "exit"
        [] ~isExit /\ plural(W_prompt) -> "list_prompts"
        [] ~isExit /\ singular(W_prompt) -> "handle_prompt"
        [] ~isExit /\ plural(W_resource) -> "list_resources"
        [] ~isExit /\ singular(W_resource) -> "handle_resource"
        [] OTHER -> "agent"
\* the target the last line reached, read from what it did: the loop left,
\* the output printed, the first remote call, the caller of the cycle;
\* "split" when the line failed in shlex.split, which both parameterised
\* handlers report in the same way
Reached ==
  IF pc = "exited" THEN "exit"
  ELSE IF out.kind \in {"Available Prompts", "No prompts found", "Exception"}
    THEN "list_prompts"
  ELSE IF out.kind \in {"Available Resources", "No resources found",
                        "Failed to list resources:"}
    THEN "list_resources"
  ELSE IF \/ caller = "prompt"
          \/ out.kind \in {"Usage: /prompt", "Prompt invocation failed:",
                            "Expected arguments:", "=== Prompt Result ==="}
    THEN "handle_prompt"
  ELSE IF \/ out.kind \in {"Usage: /resource", "Resource fetch failed:",
                            "=== Resource Text ==="}
          \/ Issued("read_resource")
    THEN "handle_resource"
  ELSE IF out.kind = "not found"
    THEN IF calls[1].op = "list_prompts" THEN "handle_prompt"
         ELSE "handle_resource"
  ELSE IF caller = "main" \/ out.kind \in {"AI:", "Error:"}
    THEN "agent"
  ELSE "split"

\* C19: the last line read went to the one target its text determines:
\* exit, quit and q in any letter case left the loop; a line beginning
\* with /prompts was listed and no prompt fetched or cycle started; any
\* other line beginning with /prompt went to handle_prompt; likewise for
\* /resources and /resource; every other line, and no line of the former
\* kinds, started a conversational turn.
C19_OneTargetPerLine ==
  line # <<>> =>
    /\ (Reached # "split" => Reached = Target(line))
    /\ (Reached = "split" =>
          Target(line) \in {"handle_prompt", "handle_resource"})
    /\ (Target(line) = "exit" <=> pc = "exited")
    /\ (Target(line) = "list_prompts" =>
          ~Issued("get_prompt") /\ ~InCycle)
    /\ (Target(line) = "list_resources" =>
          ~Issued("read_resource") /\ ~InCycle)
    /\ (InCycle =>
          caller = IF Target(line) = "agent" THEN "main" ELSE "prompt")
    /\ (Target(line) = "agent" => calls = <<>>)

\* C19 witness: a line beginning with /prompts and going on with other
\* text was listed, on a server that holds prompts.
C19_Witness ==
  /\ line = W_prompts \o <<SP, "x">>
  /\ Reached = "list_prompts"
  /\ out.kind = "Available Prompts"
  /\ calls = <<Call("list_prompts", <<>>)>>

\* ---- a prompt without parameters, invoked without arguments
\* the last command was /prompt, naming a listed prompt that the listing
\* shows without arguments (absent or empty argument list), with no
\* argument supplied, and the listing call did not fail
ZeroArgInvocation ==
  /\ PromptCmdWithName
  /\ PromptAt > 0
  /\ ~ListCallFailed
  /\ DeclaredCount = 0
  /\ SuppliedCount = 0

\* C20 (as claimed): a prompt listed without arguments and invoked with
\* none passes validation: the get-prompt call is made with an empty
\* argument map, and unless that call fails the agent is invoked with the
\* rendered text; the invocation is not reported as failed for its
\* arguments.
C20_ZeroArgPromptInvoked ==
  ZeroArgInvocation =>
    /\ Issued("get_prompt")
    /\ DOMAIN GetPromptCall.arg[2] = {}
    /\ ~(out.kind = "Prompt invocation failed:"
           /\ out.data = <<"l", "e", "n">>)
    /\ (out.kind = "Prompt invocation failed:" \/ InCycle
          \/ out.kind = "=== Prompt Result ===")

====
